---- MODULE Spec2Model ----
(***************************************************************************)
(* Model of the drawing server of src/server.ts: the Drawing class (one    *)
(* room), the registry `drawings`, the maintenance timer, the long-poll    *)
(* waiters and the JSON file of a drawing.                                 *)
(*                                                                         *)
(* One drawing id is modelled; Rooms are the Drawing objects constructed   *)
(* for that id, in the order of their construction.  Node runs every       *)
(* callback to completion, so each action is one callback: a request       *)
(* handler from `await get(id)` to its first real suspension, a timer      *)
(* callback, or the completion of a file read or write.                    *)
(*                                                                         *)
(* Time is counted in ticks.  The code only ever uses Date.now() in the    *)
(* difference Date.now() - lastAccess, so the model keeps that difference  *)
(* (sinceAccess), saturated just above cleanupDelay.                       *)
(*                                                                         *)
(* The server never inspects an edit.  Every edit a client sends is a      *)
(* fresh value; the model names it by the position it gets in the log of   *)
(* its room, so the log of a room at logicalTime L is <<1, ..., L>>.       *)
(***************************************************************************)
EXTENDS Integers, Sequences, FiniteSets, Bags, TLC

\* ---- bounds of the model ------------------------------------------------
MaxInst == 2        \* Drawing objects constructed for the id
MaxSlowInst == 1    \* the same when file reads and writes may be slow
MaxTime == 3        \* cap on logicalTime
MaxBatch == 2       \* longest edit list in one /draw request
MaxCalls == 1       \* updates calls suspended or woken, per Drawing
MaxCrowd == 2       \* the same when one Drawing has many readers
MaxPending == 2     \* handlers awaiting loadPromise, per Drawing
MaxWrites == 2      \* fs.writeFile calls in flight
MaxClients == 2     \* browsers that run updateCommitted
MaxSent == 1        \* /commit requests of a browser on their way

\* ---- program constants, in ticks ------------------------------------------
\* A tick is cleanupDelay (5 minutes); runPeriod (30 s) is shorter than a
\* tick, so an active timer fires at least once between two ticks.
cleanupDelay == 1
\* src/draw.ts: a browser submits a snapshot every snapshotPeriod edits (1000
\* in the source; the model counts in half periods).
snapshotPeriod == 2

Rooms == 1..MaxInst
\* imageData is any string a client sends: a data URL, or the empty string.
Images == {"imgA", ""}
NoImage == "null"

\* JSON.stringify of an ImageFile: the text of the object, member by member
\* in the order of the object literal; null is written as the literal null
\* and a string as a quoted string.
stringify(data) ==
  <<"image", IF data.image = NoImage THEN <<"null">>
                                     ELSE <<"string", data.image>>,
    "logicalTime", data.logicalTime,
    "edits", data.edits>>

\* JSON.parse of such a text, and the members Drawing.load reads from it.
parse(text) ==
  [image |-> IF text[2][1] = "null" THEN NoImage ELSE text[2][2],
   logicalTime |-> text[4],
   edits |-> text[6]]

\* No file: fs.readFile fails.
NoFile == <<>>
\* What a Drawing constructed now would have once its load has ended: the
\* members of the file, or the constructor's values when the read fails.
reload(text) ==
  IF text = NoFile THEN [image |-> NoImage, logicalTime |-> 0, edits |-> <<>>]
  ELSE parse(text)
\* A file saved by an earlier run of the server: a snapshot at time 1 and one
\* later edit.
OldFile == stringify([image |-> "imgA", logicalTime |-> 2, edits |-> <<2>>])

\* ---- the browser (src/draw.ts) ---------------------------------------------
Clients == 1..MaxClients

\* A page that is not open, and the locals of updateCommitted when it starts.
closed ==
  [pc |-> "closed", logicalTime |-> 0, canvas |-> <<>>, snapshotParity |-> 0,
   sent |-> <<>>]

\* nextSnapshot(time): the first time >= `time` that is snapshotParity modulo
\* snapshotPeriod.
nextSnapshot(time, snapshotParity) ==
  LET cycle == (time - snapshotParity + snapshotPeriod - 1) \div snapshotPeriod
  IN  cycle * snapshotPeriod + snapshotParity

\* The committed canvas is the list of the edits drawn on it since it was
\* blank.  pictures[k] is the data URL of the canvas with the edits 1..k.
pictures == <<"imgA", "imgAB", "imgABC", "imgABCD", "imgABCDE">>
isPrefix(canvas) ==
  /\ Len(canvas) \in DOMAIN pictures
  /\ canvas = [i \in 1..Len(canvas) |-> i]

\* committedCanvas.toDataURL()
toDataURL(canvas) ==
  IF canvas = <<>> THEN "blank"
  ELSE IF isPrefix(canvas) THEN pictures[Len(canvas)]
  ELSE "smudge"

\* clearRect, then drawImage of the loaded data URL: the canvas shows what the
\* image shows (<<0>>: something that is no prefix of the edits).
drawImage(imageData) ==
  IF imageData = "blank" THEN <<>>
  ELSE IF \E k \in DOMAIN pictures : pictures[k] = imageData
  THEN LET k == CHOOSE k \in DOMAIN pictures : pictures[k] = imageData
       IN  [i \in 1..k |-> i]
  ELSE <<0>>

\* draw(committedContext, edits)
draw(canvas, es) == canvas \o es

\* Arguments a client may send.
BatchSizes == 0..MaxBatch
FromArgs == 0..(MaxTime + 1)
TimeArgs == 0..(MaxTime + 1)

VARIABLES
  drawings,     \* the registry entry of the id: 0 (none) or a Drawing
  born,         \* [Rooms -> BOOLEAN]: the Drawing was constructed
  loadPromise,  \* [Rooms -> BOOLEAN]: loadPromise is non-null
  getting,      \* [Rooms -> Nat]: handlers awaiting loadPromise
  image,        \* [Rooms -> Images \cup {NoImage}]
  sinceAccess,  \* [Rooms -> Nat]: Date.now() - lastAccess, in ticks
  edits,        \* [Rooms -> Seq(Edit)]
  logicalTime,  \* [Rooms -> Nat]
  waiters,      \* [Rooms -> Seq(Nat)]: the `from` of each suspended updates
  lastSave,     \* [Rooms -> Nat]
  runTimer,     \* [Rooms -> BOOLEAN]: the interval timer is active
  fired,        \* [Rooms -> BOOLEAN]: the timer fired since the last tick
  timeouts,     \* [Rooms -> Seq]: setTimeout(waiter, 0) not yet run
  writes,       \* bag of the fs.writeFile calls in flight
  disk,         \* the text in images/<id>.json, or NoFile
  clients,      \* [Clients -> the state of updateCommitted in a browser]
  ret           \* what the last step did and returned

vars == <<drawings, born, loadPromise, getting, image, sinceAccess, edits,
          logicalTime, waiters, lastSave, runTimer, fired, timeouts, writes,
          disk, clients, ret>>

\* ---- JavaScript array operations ------------------------------------------
Min(a, b) == IF a < b THEN a ELSE b
Max(a, b) == IF a > b THEN a ELSE b

\* Array.prototype.slice(start): a negative start counts from the end.
slice(s, start) ==
  LET n == Len(s)
      k == IF start < 0 THEN Max(n + start, 0) ELSE Min(start, n)
  IN  SubSeq(s, k + 1, n)

\* splice(count) instead of splice(0, count): keeps the first count elements.
spliceTail(s, count) == SubSeq(s, 1, Min(Max(count, 0), Len(s)))

\* Array.prototype.splice(0, count): removes the first count elements; the
\* count is clamped to 0..length.
splice(s, count) ==
  LET c == Min(Max(count, 0), Len(s))
  IN  SubSeq(s, c + 1, Len(s))

\* unshift instead of push.
unshift(s, items) == items \o s

\* Array.prototype.push(...items)
push(s, items) == s \o items

\* ---- Drawing ----------------------------------------------------------------
snapshotTime(r) == logicalTime[r] - Len(edits[r])

\* The response of a step: op, the Drawing, the arguments, and the outcome.
Ret(op, r) ==
  [op |-> op, room |-> r, arg |-> 0, img |-> NoImage, status |-> "ok",
   edits |-> <<>>, time |-> 0, by |-> "call"]

\* The loop `for (const waiter of this.waiters) setTimeout(waiter, 0)`:
\* timers of equal delay fire in the order they were set.
\* Only the first waiter is woken.
wakeOne(queue, ws) == IF ws = <<>> THEN queue ELSE Append(queue, Head(ws))
wake(queue, ws) == queue \o ws

\* The record save() serialises.
\* lastSave is written as the logicalTime of the file.
saveDataStale(r, im, es) == [image |-> im, logicalTime |-> lastSave[r], edits |-> es]
saveData(r, im, es) == [image |-> im, logicalTime |-> logicalTime[r], edits |-> es]

\* save() returns at once when nothing was applied since the last save.
saveSkips(r) == logicalTime[r] = lastSave[r]

\* The write save() starts: the Drawing, the local `lastSave` of save(), and
\* the caller that awaits it.  The file takes the new contents when the write
\* starts; the callback comes later.  `touched` is history kept for the
\* properties: lastAccess was assigned while a run awaited this write.
saveWrite(r, caller) ==
  [room |-> r, lastSave |-> logicalTime[r], then |-> caller, touched |-> FALSE]

\* `this.lastAccess = Date.now()`, as seen by the runs that await a write.
touch(r) ==
  BagOfAll(LAMBDA w : IF w.room = r /\ w.then = "run"
                      THEN [w EXCEPT !.touched = TRUE] ELSE w, writes)

\* Continuations of a resolved loadPromise are microtasks: they run before
\* any other callback.
MicroPending == \E r \in Rooms : getting[r] > 0 /\ ~loadPromise[r]

\* The fs.writeFile calls in flight that a Drawing started.
held(r) == \E w \in BagToSet(writes) : w.room = r

\* No callback will read the Drawing again: it is not registered, its timer
\* is cleared, and no load, handler or timeout that holds it is pending.
\* Only the end of a write it started may still run on it.
inert(r) ==
  /\ born[r]
  /\ drawings # r
  /\ ~runTimer[r]
  /\ ~loadPromise[r]
  /\ getting[r] = 0
  /\ timeouts[r] = <<>>

\* The fields of an inert Drawing are dead, and so is its lastAccess once no
\* write holds it.  Suspended calls it still has can never be woken: they are
\* kept, as open requests.
stuck(ws) == [i \in 1..Len(ws) |-> 0]
collected(r) ==
  /\ image[r] = NoImage
  /\ edits[r] = <<>>
  /\ logicalTime[r] = 0
  /\ lastSave[r] = 0
  /\ ~fired[r]
  /\ waiters[r] = stuck(waiters[r])
  /\ ~held(r) => sinceAccess[r] = 0
garbage(r) == inert(r) /\ ~collected(r)

\* The process has ended: no callback runs any more.
exited == ret.op = "exit"

\* The garbage collector runs before the next callback.
Busy == exited \/ MicroPending \/ \E r \in Rooms : garbage(r)

Init ==
  /\ drawings = 0
  /\ born = [r \in Rooms |-> FALSE]
  /\ loadPromise = [r \in Rooms |-> FALSE]
  /\ getting = [r \in Rooms |-> 0]
  /\ image = [r \in Rooms |-> NoImage]
  /\ sinceAccess = [r \in Rooms |-> 0]
  /\ edits = [r \in Rooms |-> <<>>]
  /\ logicalTime = [r \in Rooms |-> 0]
  /\ waiters = [r \in Rooms |-> <<>>]
  /\ lastSave = [r \in Rooms |-> 0]
  /\ runTimer = [r \in Rooms |-> FALSE]
  /\ fired = [r \in Rooms |-> FALSE]
  /\ timeouts = [r \in Rooms |-> <<>>]
  /\ writes = EmptyBag
  /\ disk \in {NoFile, OldFile}
  /\ clients = [c \in Clients |-> closed]
  /\ ret = Ret("init", 0)

\* Drawing.apply
\* The check for an empty list is missing.
anyList(es) == FALSE
mustAppend(es) == Len(es) = 0
\* logicalTime++ instead of += edits.length.
advanceOne(t, es) == t + 1
\* logicalTime = edits.length instead of +=.
advanceTo(t, es) == Len(es)
advance(t, es) == t + Len(es)
apply(r, es) ==
  IF mustAppend(es)
  THEN /\ ret' = [Ret("apply", r) EXCEPT !.status = "InvalidArgument", !.edits = es]
       /\ UNCHANGED <<image, sinceAccess, edits, logicalTime, waiters, lastSave,
                      timeouts, writes, disk>>
  ELSE /\ advance(logicalTime[r], es) <= MaxTime
       /\ sinceAccess' = [sinceAccess EXCEPT ![r] = 0]
       /\ edits' = [edits EXCEPT ![r] = push(@, es)]
       /\ logicalTime' = [logicalTime EXCEPT ![r] = advance(@, es)]
       /\ timeouts' = [timeouts EXCEPT ![r] = wake(@, waiters[r])]
       /\ waiters' = [waiters EXCEPT ![r] = <<>>]
       /\ ret' = [Ret("apply", r) EXCEPT !.edits = es,
                                         !.time = advance(logicalTime[r], es)]
       /\ writes' = touch(r)
       /\ UNCHANGED <<image, lastSave, disk>>

\* Drawing.updates, up to its return or its suspension in anyUpdates.
\* The cursor is compared with the length of the log, not the snapshot time.
beforeLog(r, t) == t < Len(edits[r])
beforeSnapshot(r, t) == t < snapshotTime(r)
\* The call never waits.
neverCaughtUp(r, t) == FALSE
\* >= instead of ==: a cursor ahead of the clock waits too.
atOrAhead(r, t) == t >= logicalTime[r]
caughtUp(r, t) == t = logicalTime[r]
\* The whole log is returned, whatever the cursor.
deliverAll(r, t) == edits[r]
\* The three lines after the await: amount, start, slice.
deliver(r, t) ==
  LET amount == logicalTime[r] - t
      start == Len(edits[r]) - amount
  IN  slice(edits[r], start)
updates(r, t, calls) ==
  /\ sinceAccess' = [sinceAccess EXCEPT ![r] = 0]
  /\ IF beforeSnapshot(r, t)
     THEN /\ ret' = [Ret("updates", r) EXCEPT !.arg = t, !.status = "OutOfRange"]
          /\ UNCHANGED waiters
     ELSE IF caughtUp(r, t)
     THEN /\ Len(waiters[r]) + Len(timeouts[r]) < calls
          /\ waiters' = [waiters EXCEPT ![r] = Append(@, t)]
          /\ ret' = [Ret("updates", r) EXCEPT !.arg = t, !.status = "wait"]
     ELSE /\ ret' = [Ret("updates", r) EXCEPT !.arg = t, !.edits = deliver(r, t)]
          /\ UNCHANGED waiters
  /\ writes' = touch(r)
  /\ UNCHANGED <<image, edits, logicalTime, lastSave, timeouts, disk>>

\* Drawing.snapshot, called by the commit handler, up to the await in save().
\* <= instead of <: a snapshot at the current snapshot time is taken again.
takesAgain(r, t) == snapshotTime(r) <= t
newer(r, t) == snapshotTime(r) < t
snapshot(r, t, value) ==
  LET takes == newer(r, t)
      im == IF takes THEN value ELSE image[r]
      es == IF takes THEN splice(edits[r], t - snapshotTime(r)) ELSE edits[r]
  IN  /\ image' = [image EXCEPT ![r] = im]
      /\ edits' = [edits EXCEPT ![r] = es]
      /\ IF saveSkips(r)
         THEN /\ UNCHANGED <<writes, disk>>
              /\ ret' = [Ret("commit", r) EXCEPT !.arg = t, !.img = value]
         ELSE /\ BagCardinality(writes) < MaxWrites
              /\ writes' = writes (+) SetToBag({saveWrite(r, "commit")})
              /\ disk' = stringify(saveData(r, im, es))
              /\ ret' = [Ret("commit", r) EXCEPT !.arg = t, !.img = value,
                                                  !.status = "saving"]
      /\ UNCHANGED <<sinceAccess, logicalTime, waiters, lastSave, timeouts>>

\* The snapshot handler (read of the snapshot).
\* `if (drawing.image)`: null and the empty string are falsy.
truthy(im) == im # NoImage /\ im # ""
readSnapshot(r) ==
  /\ ret' = IF truthy(image[r])
            THEN [Ret("snapshot", r) EXCEPT !.time = snapshotTime(r), !.img = image[r]]
            ELSE [Ret("snapshot", r) EXCEPT !.status = "NotAvailable"]
  /\ UNCHANGED <<image, sinceAccess, edits, logicalTime, waiters, lastSave,
                 timeouts, writes, disk>>

\* A list of n edits no client has sent before.
fresh(r, n) == [i \in 1..n |-> logicalTime[r] + i]

\* What a request handler does with the Drawing that get(id) gave it.
Handler(r, calls) ==
  \/ \E n \in BatchSizes : apply(r, fresh(r, n))
  \/ \E t \in FromArgs : updates(r, t, calls)
  \/ \E t \in TimeArgs, value \in Images : snapshot(r, t, value)
  \/ readSnapshot(r)

\* drawings.has(id)
\* A Drawing that is still loading counts as absent.
hasLoaded == drawings # 0 /\ ~loadPromise[drawings]
has == drawings # 0

\* A request for the id while no Drawing is resident: Drawing.load constructs
\* one, registers it and starts reading the file; the handler awaits it.
construct(limit) ==
  /\ ~Busy
  /\ ~has
  /\ \E r \in 1..limit :
         /\ ~born[r]
         /\ \A q \in 1..(r - 1) : born[q]
         /\ born' = [born EXCEPT ![r] = TRUE]
         /\ drawings' = r
         /\ loadPromise' = [loadPromise EXCEPT ![r] = TRUE]
         /\ getting' = [getting EXCEPT ![r] = 1]
         /\ image' = [image EXCEPT ![r] = NoImage]
         /\ sinceAccess' = [sinceAccess EXCEPT ![r] = 0]
         /\ edits' = [edits EXCEPT ![r] = <<>>]
         /\ logicalTime' = [logicalTime EXCEPT ![r] = 0]
         /\ waiters' = [waiters EXCEPT ![r] = <<>>]
         /\ lastSave' = [lastSave EXCEPT ![r] = 0]
         /\ runTimer' = [runTimer EXCEPT ![r] = TRUE]
         /\ fired' = [fired EXCEPT ![r] = TRUE]
         /\ ret' = Ret("create", r)
  /\ UNCHANGED <<timeouts, writes, disk>>
  /\ UNCHANGED clients

Create == construct(MaxInst)

\* load() returns the Drawing without awaiting its loadPromise.
JoinNoWait ==
  /\ ~Busy
  /\ has
  /\ loadPromise[drawings]
  /\ Handler(drawings, MaxCalls)
  /\ UNCHANGED <<drawings, born, loadPromise, getting, runTimer, fired>>
  /\ UNCHANGED clients

\* A request for the id while the resident Drawing is still loading.
Join ==
  /\ ~Busy
  /\ has
  /\ loadPromise[drawings]
  /\ getting[drawings] < MaxPending
  /\ getting' = [getting EXCEPT ![drawings] = @ + 1]
  /\ ret' = Ret("join", drawings)
  /\ UNCHANGED <<drawings, born, loadPromise, image, sinceAccess, edits,
                 logicalTime, waiters, lastSave, runTimer, fired, timeouts,
                 writes, disk>>
  /\ UNCHANGED clients

\* A request for the id while the resident Drawing is loaded.
request(calls) ==
  /\ ~Busy
  /\ has
  /\ ~loadPromise[drawings]
  /\ Handler(drawings, calls)
  /\ UNCHANGED <<drawings, born, loadPromise, getting, runTimer, fired>>
  /\ UNCHANGED clients

Request == request(MaxCalls)

\* A handler that awaited loadPromise gets its Drawing and goes on.
resolved(r, calls) ==
  /\ getting[r] > 0
  /\ ~loadPromise[r]
  /\ getting' = [getting EXCEPT ![r] = @ - 1]
  /\ Handler(r, calls)
  /\ UNCHANGED <<drawings, born, loadPromise, runTimer, fired>>
  /\ UNCHANGED clients

Resolved(r) == resolved(r, MaxCalls)

\* The file read of Drawing.load succeeds and parses.
LoadDone(r) ==
  /\ ~Busy
  /\ loadPromise[r]
  /\ disk # NoFile
  /\ LET data == parse(disk)
     IN  /\ image' = [image EXCEPT ![r] = data.image]
         /\ logicalTime' = [logicalTime EXCEPT ![r] = data.logicalTime]
         /\ edits' = [edits EXCEPT ![r] = data.edits]
         /\ lastSave' = [lastSave EXCEPT ![r] = data.logicalTime]
  /\ loadPromise' = [loadPromise EXCEPT ![r] = FALSE]
  /\ ret' = Ret("loaded", r)
  /\ UNCHANGED <<drawings, born, getting, sinceAccess, waiters, runTimer,
                 fired, timeouts, writes, disk>>
  /\ UNCHANGED clients

\* The failure of the read rejects loadPromise: every waiting handler fails.
LoadReject(r) ==
  /\ ~Busy
  /\ loadPromise[r]
  /\ loadPromise' = [loadPromise EXCEPT ![r] = FALSE]
  /\ getting' = [getting EXCEPT ![r] = 0]
  /\ ret' = [Ret("new", r) EXCEPT !.status = "IOFailure"]
  /\ UNCHANGED <<drawings, born, image, sinceAccess, edits, logicalTime,
                 waiters, lastSave, runTimer, fired, timeouts, writes, disk>>
  /\ UNCHANGED clients

\* The file read fails (no file, or an I/O error): the catch block.
LoadFail(r) ==
  /\ ~Busy
  /\ loadPromise[r]
  /\ loadPromise' = [loadPromise EXCEPT ![r] = FALSE]
  /\ ret' = Ret("new", r)
  /\ UNCHANGED <<drawings, born, getting, image, sinceAccess, edits,
                 logicalTime, waiters, lastSave, runTimer, fired, timeouts,
                 writes, disk>>
  /\ UNCHANGED clients

\* A setTimeout(waiter, 0) callback: the suspended updates call goes on after
\* its await and returns.
resume(r) ==
  /\ ~Busy
  /\ timeouts[r] # <<>>
  /\ LET t == Head(timeouts[r])
     IN  ret' = [Ret("updates", r) EXCEPT !.arg = t, !.by = "timeout",
                                          !.edits = deliver(r, t)]
  /\ timeouts' = [timeouts EXCEPT ![r] = Tail(@)]
  /\ UNCHANGED <<drawings, born, loadPromise, getting, image, sinceAccess,
                 edits, logicalTime, waiters, lastSave, runTimer, fired,
                 writes, disk>>

Resume(r) == resume(r) /\ UNCHANGED clients

\* The end of Drawing.run, after `await this.save()`.
closes(r) ==
  LET lastAccess == sinceAccess[r]
  IN  lastAccess > cleanupDelay /\ lastAccess = sinceAccess[r]
afterSave(r) ==
  IF closes(r)
  THEN /\ runTimer' = [runTimer EXCEPT ![r] = FALSE]
       /\ drawings' = 0
  ELSE UNCHANGED <<runTimer, drawings>>

\* The interval timer fires: Drawing.run up to the write of save(), or to its
\* end when save() has nothing to write.
Run(r) ==
  /\ ~Busy
  /\ runTimer[r]
  /\ fired' = [fired EXCEPT ![r] = TRUE]
  /\ timeouts' = [timeouts EXCEPT ![r] = wake(@, waiters[r])]
  /\ waiters' = [waiters EXCEPT ![r] = <<>>]
  /\ ret' = Ret("run", r)
  /\ IF saveSkips(r)
     THEN /\ afterSave(r)
          /\ UNCHANGED <<writes, disk>>
     ELSE /\ BagCardinality(writes) < MaxWrites
          /\ writes' = writes (+) SetToBag({saveWrite(r, "run")})
          /\ disk' = stringify(saveData(r, image[r], edits[r]))
          /\ UNCHANGED <<runTimer, drawings>>
  /\ UNCHANGED <<born, loadPromise, getting, image, sinceAccess, edits,
                 logicalTime, lastSave>>
  /\ UNCHANGED clients

\* A write completes: save() records lastSave and its caller goes on.
WriteDone(w) ==
  /\ ~Busy
  /\ BagIn(w, writes)
  /\     /\ lastSave' = [lastSave EXCEPT ![w.room] = w.lastSave]
         /\ IF w.then = "run"
            THEN /\ afterSave(w.room)
                 /\ ret' = Ret("saved", w.room)
            ELSE /\ UNCHANGED <<runTimer, drawings>>
                 /\ ret' = [Ret("commit", w.room) EXCEPT !.by = "save"]
  /\ writes' = writes (-) SetToBag({w})
  /\ UNCHANGED <<born, loadPromise, getting, image, sinceAccess, edits,
                 logicalTime, waiters, fired, timeouts, disk>>
  /\ UNCHANGED clients

\* A write fails: save() throws into its caller.
WriteFail(w) ==
  /\ ~Busy
  /\ BagIn(w, writes)
  /\     ret' = IF w.then = "run"
                THEN [Ret("saved", w.room) EXCEPT !.status = "IOFailure"]
                ELSE [Ret("commit", w.room) EXCEPT !.by = "save",
                                                   !.status = "IOFailure"]
  /\ writes' = writes (-) SetToBag({w})
  /\ UNCHANGED <<drawings, born, loadPromise, getting, image, sinceAccess,
                 edits, logicalTime, waiters, lastSave, runTimer, fired,
                 timeouts, disk>>
  /\ UNCHANGED clients

\* A write started by run() fails.  The interval callback `() => this.run()`
\* drops the promise of run(), so its rejection is unhandled: Node before
\* version 15 prints a warning (WriteFail), Node from version 15 on ends the
\* process.  What was in memory is gone; the variables keep their last values
\* and no action is enabled any more.
Exit(w) ==
  /\ ~Busy
  /\ BagIn(w, writes)
  /\ w.then = "run"
  /\ ret' = [Ret("exit", w.room) EXCEPT !.status = "IOFailure"]
  /\ UNCHANGED <<drawings, born, loadPromise, getting, image, sinceAccess,
                 edits, logicalTime, waiters, lastSave, runTimer, fired,
                 timeouts, writes, disk>>
  /\ UNCHANGED clients

\* The garbage collector drops what is dead of an inert Drawing.
Collect(r) ==
  /\ garbage(r)
  /\ sinceAccess' = [sinceAccess EXCEPT ![r] = IF held(r) THEN @ ELSE 0]
  /\ image' = [image EXCEPT ![r] = NoImage]
  /\ edits' = [edits EXCEPT ![r] = <<>>]
  /\ logicalTime' = [logicalTime EXCEPT ![r] = 0]
  /\ lastSave' = [lastSave EXCEPT ![r] = 0]
  /\ fired' = [fired EXCEPT ![r] = FALSE]
  /\ waiters' = [waiters EXCEPT ![r] = stuck(@)]
  /\ ret' = Ret("collect", r)
  /\ UNCHANGED <<drawings, born, loadPromise, getting, runTimer, timeouts,
                 writes, disk>>
  /\ UNCHANGED clients

\* Time passes.  A tick is far longer than runPeriod and than the delay of a
\* setTimeout(waiter, 0): every active interval timer has fired since the last
\* tick, and no timeout that was pending at the last tick is still pending.
\* Unless slowFiles, a file read or write is as fast.
elapse(slowFiles) ==
  /\ ~Busy
  /\ \A r \in Rooms : runTimer[r] => fired[r]
  /\ \A r \in Rooms : timeouts[r] = <<>> /\ (slowFiles \/ ~loadPromise[r])
  /\ slowFiles \/ writes = EmptyBag
  /\ sinceAccess' = [r \in Rooms |->
       IF runTimer[r] THEN Min(sinceAccess[r] + 1, cleanupDelay + 1)
       ELSE sinceAccess[r]]
  /\ fired' = [r \in Rooms |-> FALSE]
  /\ ret' = Ret("tick", 0)
  /\ UNCHANGED <<drawings, born, loadPromise, getting, image, edits,
                 logicalTime, waiters, lastSave, runTimer, timeouts, writes,
                 disk>>
  /\ UNCHANGED clients

Tick == elapse(FALSE)

Next ==
  \/ Create
  \/ Join
  \/ Request
  \/ \E r \in Rooms : Resolved(r)
  \/ \E r \in Rooms : LoadDone(r)
  \/ \E r \in Rooms : LoadFail(r)
  \/ \E r \in Rooms : Resume(r)
  \/ \E r \in Rooms : Run(r)
  \/ \E w \in BagToSet(writes) : WriteDone(w)
  \/ \E w \in BagToSet(writes) : WriteFail(w)
  \/ \E w \in BagToSet(writes) : Exit(w)
  \/ \E r \in Rooms : Collect(r)
  \/ Tick

Spec == Init /\ [][Next]_vars

\* The timers of a Drawing fire, the microtasks and the collector run, and
\* the file system answers every write.
Settle == \E w \in BagToSet(writes) : WriteDone(w) \/ WriteFail(w)

Fairness ==
  /\ \A r \in Rooms : SF_vars(Run(r)) /\ SF_vars(Resume(r))
  /\ \A r \in Rooms : WF_vars(Resolved(r)) /\ WF_vars(Collect(r))
  /\ WF_vars(Settle)

LiveSpec == Spec /\ Fairness

\* The same server when a file read or write may take longer than
\* cleanupDelay.
SlowCreate == construct(MaxSlowInst)

SlowTick == elapse(TRUE)

SlowNext ==
  \/ SlowCreate
  \/ Join
  \/ Request
  \/ \E r \in Rooms : Resolved(r)
  \/ \E r \in Rooms : LoadDone(r)
  \/ \E r \in Rooms : LoadFail(r)
  \/ \E r \in Rooms : Resume(r)
  \/ \E r \in Rooms : Run(r)
  \/ \E w \in BagToSet(writes) : WriteDone(w)
  \/ \E w \in BagToSet(writes) : WriteFail(w)
  \/ \E w \in BagToSet(writes) : Exit(w)
  \/ \E r \in Rooms : Collect(r)
  \/ SlowTick

SlowSpec == Init /\ [][SlowNext]_vars

SlowLiveSpec == SlowSpec /\ Fairness

\* The same server with one Drawing and up to MaxCrowd readers waiting on it.
CrowdRequest == request(MaxCrowd)

CrowdResolved(r) == resolved(r, MaxCrowd)

CrowdNext ==
  \/ SlowCreate
  \/ Join
  \/ CrowdRequest
  \/ \E r \in Rooms : CrowdResolved(r)
  \/ \E r \in Rooms : LoadDone(r)
  \/ \E r \in Rooms : LoadFail(r)
  \/ \E r \in Rooms : Resume(r)
  \/ \E r \in Rooms : Run(r)
  \/ \E w \in BagToSet(writes) : WriteDone(w)
  \/ \E w \in BagToSet(writes) : WriteFail(w)
  \/ \E w \in BagToSet(writes) : Exit(w)
  \/ \E r \in Rooms : Collect(r)
  \/ Tick

CrowdSpec == Init /\ [][CrowdNext]_vars

\* ---- the server with browsers that follow updateCommitted ------------------
\* The page is opened: the script draws snapshotParity and updateCommitted
\* starts with logicalTime 0 and a blank canvas.
Open(c) ==
  /\ ~Busy
  /\ clients[c].pc = "closed"
  /\ \E parity \in 0..(snapshotPeriod - 1) :
        clients' = [clients EXCEPT ![c] = [closed EXCEPT !.pc = "poll",
                                                          !.snapshotParity = parity]]
  /\ ret' = Ret("open", 0)
  /\ UNCHANGED <<drawings, born, loadPromise, getting, image, sinceAccess,
                 edits, logicalTime, waiters, lastSave, runTimer, fired,
                 timeouts, writes, disk>>

\* The try block of updateCommitted after readUpdates has returned `es`:
\* draw them, advance logicalTime, submit a snapshot at a snapshot time.
\* sendSnapshot is not awaited: the loop goes on while the request travels.
submits(cl, es) ==
  cl.logicalTime + Len(es) >= nextSnapshot(cl.logicalTime, cl.snapshotParity)
received(cl, es) ==
  LET canvas == draw(cl.canvas, es)
      time == cl.logicalTime + Len(es)
  IN  [cl EXCEPT !.pc = "poll", !.canvas = canvas, !.logicalTime = time,
                 !.sent = IF submits(cl, es)
                          THEN Append(@, [logicalTime |-> time,
                                          imageData |-> toDataURL(canvas)])
                          ELSE @]
canSend(cl, es) == submits(cl, es) => Len(cl.sent) < MaxSent

\* readUpdates(logicalTime) reaches the server.  The 404 of a failed call is
\* no JSON: response.json() throws and the catch block is entered.
Poll(c) ==
  /\ ~Busy
  /\ has
  /\ ~loadPromise[drawings]
  /\ clients[c].pc = "poll"
  /\ updates(drawings, clients[c].logicalTime, MaxCrowd)
  /\ ret'.status = "ok" => canSend(clients[c], ret'.edits)
  /\ clients' = [clients EXCEPT ![c] =
        IF ret'.status = "OutOfRange" THEN [@ EXCEPT !.pc = "restart"]
        ELSE IF ret'.status = "wait" THEN [@ EXCEPT !.pc = "wait"]
        ELSE received(@, ret'.edits)]
  /\ UNCHANGED <<drawings, born, loadPromise, getting, runTimer, fired>>

\* The suspended readUpdates of a browser returns.
Woken(c) ==
  /\ clients[c].pc = "wait"
  /\ \E r \in Rooms :
        /\ resume(r)
        /\ Head(timeouts[r]) = clients[c].logicalTime
  /\ canSend(clients[c], ret'.edits)
  /\ clients' = [clients EXCEPT ![c] = received(@, ret'.edits)]

\* The catch block: readSnapshot, then restart from the image.  When the
\* server has no snapshot its 404 makes response.json() throw inside the
\* catch block, and updateCommitted ends.
Restart(c) ==
  /\ ~Busy
  /\ has
  /\ ~loadPromise[drawings]
  /\ clients[c].pc = "restart"
  /\ readSnapshot(drawings)
  /\ clients' = [clients EXCEPT ![c] =
        IF ret'.status = "NotAvailable" THEN [@ EXCEPT !.pc = "stopped"]
        ELSE [@ EXCEPT !.pc = "poll", !.logicalTime = ret'.time,
                       !.canvas = drawImage(ret'.img)]]
  /\ UNCHANGED <<drawings, born, loadPromise, getting, runTimer, fired>>

\* The /commit request of sendSnapshot reaches the server.
Commit(c) ==
  /\ ~Busy
  /\ has
  /\ ~loadPromise[drawings]
  /\ clients[c].sent # <<>>
  /\ LET m == Head(clients[c].sent)
     IN  snapshot(drawings, m.logicalTime, m.imageData)
  /\ clients' = [clients EXCEPT ![c].sent = Tail(@)]
  /\ UNCHANGED <<drawings, born, loadPromise, getting, runTimer, fired>>

\* deliverEdits of some browser: a /draw request with at least one edit.
sendEdits(r) == \E n \in 1..MaxBatch : apply(r, fresh(r, n))
Draw ==
  /\ ~Busy
  /\ has
  /\ ~loadPromise[drawings]
  /\ sendEdits(drawings)
  /\ UNCHANGED <<drawings, born, loadPromise, getting, runTimer, fired, clients>>

\* The same for the request that made the server construct the Drawing.
FirstDraw(r) ==
  /\ getting[r] > 0
  /\ ~loadPromise[r]
  /\ getting' = [getting EXCEPT ![r] = @ - 1]
  /\ sendEdits(r)
  /\ UNCHANGED <<drawings, born, loadPromise, runTimer, fired, clients>>

ClientNext ==
  \/ SlowCreate
  \/ \E r \in Rooms : FirstDraw(r)
  \/ \E r \in Rooms : LoadDone(r)
  \/ \E r \in Rooms : LoadFail(r)
  \/ Draw
  \/ \E c \in Clients : Open(c)
  \/ \E c \in Clients : Poll(c)
  \/ \E c \in Clients : Woken(c)
  \/ \E c \in Clients : Restart(c)
  \/ \E c \in Clients : Commit(c)
  \/ \E r \in Rooms : Run(r)
  \/ \E w \in BagToSet(writes) : WriteDone(w)

ClientSpec == Init /\ [][ClientNext]_vars

-----------------------------------------------------------------------------
(* Properties.  The edits of a room are named by their position in its     *)
(* log, so the edits numbered a+1 .. b are the sequence range(a, b).       *)

range(a, b) == [i \in 1..(b - a) |-> a + i]

called(op) == ret'.op = op /\ ret'.by = "call"

\* C1: updates(from) with from >= snapshotTime() returns, when it returns,
\* exactly the edits numbered from+1 .. logicalTime, oldest first, whether it
\* returned at once or after waiting.
C1_UpdatesReturnSuffix ==
  (ret.op = "updates" /\ ret.status = "ok")
    => ret.edits = range(ret.arg, logicalTime[ret.room])

\* C2: updates(from) with snapshotTime() <= from < logicalTime returns at
\* once the last logicalTime - from edits and changes neither the log, the
\* image nor the wait set.
C2_UpdatesBehind ==
  [][\A r \in Rooms :
       (called("updates") /\ ret'.room = r
          /\ snapshotTime(r) <= ret'.arg /\ ret'.arg < logicalTime[r])
       => /\ ret'.status = "ok"
          /\ ret'.edits = range(ret'.arg, logicalTime[r])
          /\ Len(ret'.edits) = logicalTime[r] - ret'.arg
          /\ UNCHANGED <<edits, logicalTime, image, waiters, timeouts>>]_vars

C2_Witness ==
  /\ ret.op = "updates" /\ ret.by = "call" /\ ret.status = "ok"
  /\ ret.arg = 1 /\ ret.edits = <<2, 3>>
  /\ snapshotTime(ret.room) = 1 /\ logicalTime[ret.room] = 3

\* C3: updates(from) with from < snapshotTime() fails with OutOfRange and
\* returns no edits; the log, the image and the wait set are unchanged.
C3_UpdatesOutOfRange ==
  [][\A r \in Rooms :
       (called("updates") /\ ret'.room = r /\ ret'.arg < snapshotTime(r))
       => /\ ret'.status = "OutOfRange"
          /\ ret'.edits = <<>>
          /\ UNCHANGED <<edits, logicalTime, image, waiters, timeouts>>]_vars

C3_Witness ==
  /\ ret.op = "updates" /\ ret.status = "OutOfRange" /\ ret.arg = 1
  /\ logicalTime[ret.room] = 3 /\ snapshotTime(ret.room) = 2
  /\ image[ret.room] # NoImage

\* C4: apply(edits) with a non-empty list appends the whole list, in order
\* and contiguously, to the end of the log, adds its length to logicalTime,
\* leaves the image alone and reports the new logicalTime.
C4_ApplyAppends ==
  [][\A r \in Rooms :
       (called("apply") /\ ret'.room = r /\ Len(ret'.edits) > 0)
       => /\ ret'.status = "ok"
          /\ edits'[r] = edits[r] \o ret'.edits
          /\ logicalTime'[r] = logicalTime[r] + Len(ret'.edits)
          /\ image'[r] = image[r]
          /\ ret'.time = logicalTime'[r]]_vars

C4_Witness ==
  /\ ret.op = "apply" /\ ret.status = "ok" /\ Len(ret.edits) = 2
  /\ edits[ret.room] = <<1, 2, 3>> /\ ret.time = 3

\* C5: apply(edits) with an empty list fails with InvalidArgument and changes
\* nothing: not the log, logicalTime, the image, the wait set, the scheduled
\* wake-ups, the time of last access or the time of last save.
C5_ApplyEmpty ==
  [][(called("apply") /\ ret'.edits = <<>>)
       => /\ ret'.status = "InvalidArgument"
          /\ UNCHANGED <<edits, logicalTime, image, waiters, timeouts,
                         sinceAccess, lastSave, drawings>>]_vars

C5_Witness ==
  /\ ret.op = "apply" /\ ret.status = "InvalidArgument"
  /\ waiters[ret.room] # <<>> /\ sinceAccess[ret.room] > 0
  /\ logicalTime[ret.room] > 0

\* C6: in every state of every room the log is no longer than logicalTime,
\* so snapshotTime() = logicalTime - length of the log is never negative, and
\* the log holds exactly the edits numbered snapshotTime()+1 .. logicalTime.
C6_SnapshotTimeInRange ==
  \A r \in Rooms :
    /\ 0 <= Len(edits[r]) /\ Len(edits[r]) <= logicalTime[r]
    /\ 0 <= snapshotTime(r) /\ snapshotTime(r) <= logicalTime[r]
    /\ edits[r] = range(snapshotTime(r), logicalTime[r])

C6_Witness ==
  /\ ret.op = "commit" /\ ret.arg > logicalTime[ret.room]
  /\ logicalTime[ret.room] = 2 /\ edits[ret.room] = <<>>
  /\ snapshotTime(ret.room) = 2

\* C7: the logicalTime of a Drawing never decreases: only apply and the
\* initial load change it, and both only increase it.  (A Drawing no callback
\* can reach any more is outside the claim.)
C7_LogicalTimeMonotone ==
  [][\A r \in Rooms :
       inert(r) \/
         /\ logicalTime'[r] >= logicalTime[r]
         /\ logicalTime'[r] # logicalTime[r]
              => ret'.room = r /\ ret'.op \in {"apply", "loaded"}]_vars

C7_Witness ==
  /\ ret.op = "apply" /\ ret.status = "ok"
  /\ logicalTime[ret.room] = 3 /\ Len(ret.edits) = 1
  /\ lastSave[ret.room] = 2

\* C8: updates(from) with from = logicalTime does not return at once but
\* joins the wait set; a waiting call is resumed only through a wake-up
\* scheduled by an apply or by the periodic run, and a call resumed while
\* logicalTime is still from returns the empty list, never an error.
C8_UpdatesWaits ==
  [][\A r \in Rooms :
       /\ (called("updates") /\ ret'.room = r /\ ret'.arg = logicalTime[r])
            => /\ ret'.status = "wait"
               /\ waiters'[r] = Append(waiters[r], ret'.arg)
               /\ UNCHANGED <<edits, logicalTime, image, timeouts>>
       /\ (ret'.op = "updates" /\ ret'.room = r /\ ret'.status = "wait")
            => ret'.arg = logicalTime[r]
       /\ (timeouts'[r] # timeouts[r] /\ Len(timeouts'[r]) >= Len(timeouts[r]))
            => /\ ret'.op \in {"apply", "run"} /\ ret'.room = r
               /\ timeouts'[r] = timeouts[r] \o waiters[r]
               /\ waiters'[r] = <<>>
       /\ (ret'.op = "updates" /\ ret'.by = "timeout" /\ ret'.room = r)
            => /\ timeouts[r] # <<>>
               /\ ret'.arg = Head(timeouts[r])
               /\ timeouts'[r] = Tail(timeouts[r])
               /\ ret'.status = "ok"
               /\ ret'.arg = logicalTime[r] => ret'.edits = <<>>]_vars

C8_Witness ==
  /\ ret.op = "updates" /\ ret.by = "timeout" /\ ret.status = "ok"
  /\ ret.arg = logicalTime[ret.room] /\ ret.edits = <<>>
  /\ logicalTime[ret.room] > 0

\* C9: a call to updates that waits on a room always returns in the end, even
\* if no edit is ever applied, a save fails or the room is evicted, provided
\* the timers fire (Fairness).
C9_WaiterReturns ==
  \A r \in Rooms :
    (waiters[r] # <<>>) ~>
      (ret.op = "updates" /\ ret.by = "timeout" /\ ret.room = r)

\* C9 in a finite run: every waiting call returns in the end, so no call
\* waits on a Drawing that nothing can reach any more (evicted, its timer
\* cleared, no handler and no wake-up pending): such a call never returns.
C9_NoStrandedWaiter ==
  \A r \in Rooms : ~(inert(r) /\ waiters[r] # <<>>)

\* C10 as stated: snapshot(t, image) with t > snapshotTime() replaces the
\* image, drops the t - snapshotTime() oldest edits, keeps logicalTime and
\* makes snapshotTime() equal to t.
C10_SnapshotTakesAny ==
  [][\A r \in Rooms :
       (called("commit") /\ ret'.room = r /\ ret'.arg > snapshotTime(r))
       => /\ image'[r] = ret'.img
          /\ edits'[r] = SubSeq(edits[r], ret'.arg - snapshotTime(r) + 1,
                                Len(edits[r]))
          /\ Len(edits'[r]) = Len(edits[r]) - (ret'.arg - snapshotTime(r))
          /\ logicalTime'[r] = logicalTime[r]
          /\ snapshotTime(r)' = ret'.arg]_vars

\* C10, amended: the same for snapshotTime() < t <= logicalTime.
C10_SnapshotTakes ==
  [][\A r \in Rooms :
       (called("commit") /\ ret'.room = r
          /\ ret'.arg > snapshotTime(r) /\ ret'.arg <= logicalTime[r])
       => /\ image'[r] = ret'.img
          /\ edits'[r] = SubSeq(edits[r], ret'.arg - snapshotTime(r) + 1,
                                Len(edits[r]))
          /\ Len(edits'[r]) = Len(edits[r]) - (ret'.arg - snapshotTime(r))
          /\ logicalTime'[r] = logicalTime[r]
          /\ snapshotTime(r)' = ret'.arg]_vars

C10_Witness ==
  /\ ret.op = "commit" /\ ret.by = "call" /\ ret.arg = 2
  /\ logicalTime[ret.room] = 3 /\ edits[ret.room] = <<3>>
  /\ image[ret.room] = ret.img /\ ret.img = "imgA"

\* C11: snapshot(t, image) with t <= snapshotTime() changes neither the image
\* nor the log nor logicalTime, and a snapshot call repeated at once with the
\* same arguments changes neither the image nor the log.
C11_SnapshotStale ==
  [][\A r \in Rooms :
       /\ (called("commit") /\ ret'.room = r /\ ret'.arg <= snapshotTime(r))
            => /\ image'[r] = image[r]
               /\ edits'[r] = edits[r]
               /\ logicalTime'[r] = logicalTime[r]
               /\ snapshotTime(r)' = snapshotTime(r)
       /\ (called("commit") /\ ret'.room = r
              /\ ret.op = "commit" /\ ret.by = "call" /\ ret.room = r
              /\ ret.arg = ret'.arg /\ ret.img = ret'.img)
            => image'[r] = image[r] /\ edits'[r] = edits[r]]_vars

C11_Witness ==
  /\ ret.op = "commit" /\ ret.by = "call"
  /\ ret.arg = snapshotTime(ret.room) /\ ret.arg > 0
  /\ image[ret.room] \notin {NoImage, ret.img}
  /\ edits[ret.room] # <<>>

\* C12: every snapshot call issues a write of the room's current image,
\* logicalTime and log, whether or not the call changed the room.
C12_SnapshotSaves ==
  [][\A r \in Rooms :
       (called("commit") /\ ret'.room = r)
       => /\ writes' = writes (+) SetToBag({saveWrite(r, "commit")})
          /\ disk' = stringify([image |-> image'[r],
                                 logicalTime |-> logicalTime'[r],
                                 edits |-> edits'[r]])]_vars

\* C13: a Drawing leaves the registry only in a step of its own maintenance
\* run, only when more than cleanupDelay has passed since its lastAccess, and
\* not at the end of a run during whose save it was accessed.
C13_EvictsIdleOnly ==
  [][\A r \in Rooms :
       (drawings = r /\ drawings' # r)
       => /\ ret'.op \in {"run", "saved"} /\ ret'.room = r
          /\ sinceAccess[r] > cleanupDelay
          /\ \A w \in BagToSet(writes) :
                (w.room = r /\ w.then = "run"
                   /\ CopiesIn(w, writes') < CopiesIn(w, writes))
                => ~w.touched]_vars

\* C14: every apply that is accepted, every updates, every read of the
\* snapshot and every snapshot write sets lastAccess to the time of the call.
C14_AccessRefreshes ==
  [][\A r \in Rooms :
       (ret'.room = r /\ ret'.by = "call"
          /\ ret'.op \in {"apply", "updates", "snapshot", "commit"}
          /\ ret'.status # "InvalidArgument")
       => sinceAccess'[r] = 0]_vars

\* C15: the registry holds at most one Drawing for the id; a Drawing is
\* constructed only when none is registered, and is registered at once; the
\* registry changes only by that and by an eviction; and every call of get,
\* also one that arrives during the load, gets the registered Drawing.
C15_OneResident ==
  [][/\ drawings \in {0} \cup {r \in Rooms : born[r]}
     /\ \A r \in Rooms :
          /\ (born'[r] /\ ~born[r]) => (drawings = 0 /\ drawings' = r)
          /\ getting'[r] > getting[r] => drawings' = r
     /\ drawings' # drawings
          => \/ drawings = 0 /\ ~born[drawings']
             \/ drawings' = 0 /\ ret'.op \in {"run", "saved"}
     /\ (ret'.by = "call" /\ getting' = getting
           /\ ret'.op \in {"apply", "updates", "snapshot", "commit"})
          => (ret'.room = drawings /\ drawings' = drawings)]_vars

C15_Witness ==
  /\ drawings = 2 /\ loadPromise[2] /\ getting[2] = 2
  /\ ret.op = "join" /\ ret.room = 2

\* C16: the file of a Drawing is read once, starting at its construction; a
\* call of get that arrives during the read only waits for it; and no
\* handler reaches the Drawing, nor does its log, clock or image change,
\* before the read has ended and installed what it read.
C16_SingleLoad ==
  [][\A r \in Rooms :
       /\ (born'[r] /\ ~born[r]) => loadPromise'[r]
       /\ (loadPromise'[r] /\ ~loadPromise[r]) => ~born[r]
       /\ (ret'.room = r /\ ret'.op \in {"loaded", "new"})
            => (loadPromise[r] /\ ~loadPromise'[r])
       /\ (ret'.room = r /\ ret'.op = "join")
            => /\ loadPromise[r] /\ loadPromise'[r]
               /\ getting'[r] = getting[r] + 1
       /\ (ret'.room = r /\ ret'.by = "call"
              /\ ret'.op \in {"apply", "updates", "snapshot", "commit"})
            => (~loadPromise[r] /\ ~loadPromise'[r])
       /\ (loadPromise[r] /\ loadPromise'[r])
            => /\ image'[r] = image[r] /\ edits'[r] = edits[r]
               /\ logicalTime'[r] = logicalTime[r]
               /\ waiters'[r] = waiters[r]
               /\ getting'[r] >= getting[r]]_vars

C16_Witness ==
  /\ ret.op = "apply" /\ ret.by = "call" /\ ret.status = "ok"
  /\ getting[ret.room] = 1 /\ ~loadPromise[ret.room]
  /\ edits[ret.room] = <<2, 3>> /\ image[ret.room] = "imgA"
  /\ lastSave[ret.room] = 2

\* C17: when the read of the file fails, the Drawing becomes ready as an
\* empty room (logicalTime 0, empty log, no image, lastSave 0), no waiting
\* call of get fails, and each of them goes on with that Drawing before
\* anything else happens.
C17_LoadFailStartsEmpty ==
  [][\A r \in Rooms :
       /\ (ret'.room = r /\ ret'.op = "new")
            => /\ ret'.status = "ok"
               /\ loadPromise[r] /\ ~loadPromise'[r]
               /\ logicalTime'[r] = 0 /\ edits'[r] = <<>>
               /\ image'[r] = NoImage /\ lastSave'[r] = 0
               /\ getting'[r] = getting[r] /\ getting[r] >= 1
       /\ (getting[r] > 0 /\ ~loadPromise[r])
            => /\ ret'.room = r /\ ret'.by = "call"
               /\ ret'.op \in {"apply", "updates", "snapshot", "commit"}
               /\ getting'[r] = getting[r] - 1]_vars

C17_Witness ==
  /\ ret.op = "new" /\ ret.room = 2 /\ getting[2] = 2
  /\ disk # NoFile /\ logicalTime[2] = 0 /\ ~loadPromise[2]

\* C18: when a save fails, in a maintenance run or in a snapshot call, the
\* server goes on, the Drawing stays registered with its timer active, its
\* log, logicalTime and image are untouched, and lastSave is not advanced (so
\* a Drawing with unsaved edits still has them unsaved for the next run).
C18_SaveFailureHarmless ==
  [][\A r \in Rooms :
       (ret'.room = r /\ ret'.status = "IOFailure")
       => /\ ret'.op # "exit"
          /\ UNCHANGED <<drawings, runTimer>>
          /\ edits'[r] = edits[r] /\ logicalTime'[r] = logicalTime[r]
          /\ image'[r] = image[r] /\ lastSave'[r] = lastSave[r]]_vars

\* C19: the text a save writes, parsed again, is the image, logicalTime and
\* log the Drawing had when the save started; the file changes only when a
\* save starts; and a Drawing that loads a file has the image, logicalTime
\* and log of that file, and lastSave equal to its logicalTime.
C19_RoundTrip ==
  [][\A r \in Rooms :
       /\ (ret'.room = r /\ ret'.op \in {"run", "commit"}
              /\ BagCardinality(writes') > BagCardinality(writes))
            => parse(disk') = [image |-> image'[r],
                               logicalTime |-> logicalTime'[r],
                               edits |-> edits'[r]]
       /\ disk' # disk
            => BagCardinality(writes') = BagCardinality(writes) + 1
       /\ (ret'.room = r /\ ret'.op = "loaded")
            => /\ disk # NoFile
               /\ [image |-> image'[r], logicalTime |-> logicalTime'[r],
                      edits |-> edits'[r]] = parse(disk)
               /\ lastSave'[r] = logicalTime'[r]]_vars

\* The second Drawing of the id has loaded exactly what the first one had
\* when it saved after a snapshot.
C19_Witness ==
  /\ ret.op = "loaded" /\ ret.room = 2
  /\ image[2] = "" /\ logicalTime[2] = 3 /\ edits[2] = <<3>>
  /\ lastSave[2] = 3 /\ disk # OldFile

\* C20: at most one write of the file of a Drawing is in flight at any time.
C20_OneWriter ==
  \A r \in Rooms :
    LET ws == {w \in BagToSet(writes) : w.room = r}
    IN  /\ Cardinality(ws) <= 1
        /\ \A w \in ws : CopiesIn(w, writes) = 1

\* C21: a read of the snapshot yields NotAvailable exactly when no image has
\* ever been set for the Drawing, by a snapshot call or by the load (an image,
\* once set, is never unset); otherwise it yields snapshotTime() and the
\* image; and it changes neither the log, logicalTime nor the image.
C21_ReadSnapshot ==
  [][\A r \in Rooms :
       /\ (called("snapshot") /\ ret'.room = r)
            => /\ (ret'.status = "NotAvailable") <=> (image[r] = NoImage)
               /\ image[r] # NoImage
                    => /\ ret'.status = "ok"
                       /\ ret'.time = snapshotTime(r)
                       /\ ret'.img = image[r]
               /\ UNCHANGED <<edits, logicalTime, image>>
       /\ (image[r] # NoImage /\ ~inert(r)) => image'[r] # NoImage]_vars

\* C22: every accepted apply and every maintenance run empties the wait set
\* and schedules each call that waited, once and in the order of arrival,
\* behind the wake-ups already scheduled; no call returns in the waking step;
\* each scheduled call returns in a later step of its own, one call per step,
\* and is then scheduled no more.
C22_WakesAll ==
  [][\A r \in Rooms :
       /\ (ret'.room = r
              /\ \/ ret'.op = "run"
                 \/ called("apply") /\ ret'.status = "ok")
            => /\ waiters'[r] = <<>>
               /\ timeouts'[r] = timeouts[r] \o waiters[r]
               /\ Len(timeouts'[r]) = Len(timeouts[r]) + Len(waiters[r])
       /\ Len(timeouts'[r]) < Len(timeouts[r])
            => /\ ret'.op = "updates" /\ ret'.by = "timeout" /\ ret'.room = r
               /\ ret'.arg = Head(timeouts[r])
               /\ timeouts'[r] = Tail(timeouts[r])
               /\ waiters'[r] = waiters[r]
       /\ Len(waiters'[r]) < Len(waiters[r])
            => ret'.op \in {"run", "apply"} /\ ret'.room = r]_vars

\* An apply has woken two waiting calls at once.
C22_Witness ==
  /\ ret.op = "apply" /\ ret.status = "ok"
  /\ waiters[ret.room] = <<>>
  /\ Len(timeouts[ret.room]) = 2
  /\ logicalTime[ret.room] = 3

\* C23: the committed canvas of a browser that runs updateCommitted shows
\* exactly the edits 1..logicalTime of the room (its own logicalTime), each
\* once and in order; the snapshots it submits are the pictures of the first
\* logicalTime edits; and its logicalTime never exceeds that of the room.
C23_ClientView ==
  \A c \in Clients :
    LET cl == clients[c] IN
      cl.pc \notin {"closed", "restart"}
      => /\ cl.canvas = range(0, cl.logicalTime)
         /\ \A i \in 1..Len(cl.sent) :
              cl.sent[i].imageData = toDataURL(range(0, cl.sent[i].logicalTime))
         /\ has => cl.logicalTime <= logicalTime[drawings]

\* C24: when a Drawing is evicted and no write it started is still in flight,
\* the file holds its image, logicalTime and log, so the Drawing that the next
\* get constructs loads exactly these.
C24_NothingLost ==
  [][\A r \in Rooms :
       (drawings = r /\ drawings' = 0 /\ ret'.room = r
          /\ \A w \in BagToSet(writes') : w.room # r)
       => reload(disk') = [image |-> image[r], logicalTime |-> logicalTime[r],
                           edits |-> edits[r]]]_vars

\* A Drawing saved its first edit, then took a snapshot at time 1, and is
\* evicted: the file still has no image and the edit.
C24_Witness ==
  /\ ret.op = "run" /\ ret.room = 1 /\ drawings = 0 /\ ~runTimer[1]
  /\ writes = EmptyBag
  /\ image[1] = "imgA" /\ logicalTime[1] = 1 /\ edits[1] = <<>>
  /\ lastSave[1] = 1
  /\ disk = stringify([image |-> NoImage, logicalTime |-> 1, edits |-> <<1>>])

\* C25: a run removes from the registry only its own Drawing: in every state
\* each Drawing whose timer is active is the Drawing registered under the id.
C25_RunRemovesOwn ==
  \A r \in Rooms : runTimer[r] => drawings = r

\* C26: updates(from) with from > logicalTime returns the empty list at once,
\* with no error, and registers no waiter; the Drawing's log, logicalTime and
\* image are unchanged.
C26_UpdatesAhead ==
  [][\A r \in Rooms :
       (called("updates") /\ ret'.room = r /\ ret'.arg > logicalTime[r])
       => /\ ret'.status = "ok"
          /\ ret'.edits = <<>>
          /\ waiters'[r] = waiters[r]
          /\ timeouts'[r] = timeouts[r]
          /\ UNCHANGED <<edits, logicalTime, image>>]_vars

C26_Witness ==
  /\ ret.op = "updates" /\ ret.by = "call" /\ ret.status = "ok"
  /\ ret.arg = logicalTime[ret.room] + 2 /\ ret.edits = <<>>
  /\ Len(edits[ret.room]) = 2 /\ waiters[ret.room] # <<>>
====
